---- MODULE Spec2Model ----
(***************************************************************************)
(* Model of src/src/index.ts: the in-memory conversation store and the     *)
(* three handlers of the worker (start, sync message relay, streaming      *)
(* message relay), with the upstream completion API and the caller of a    *)
(* streaming response as the environment.                                  *)
(*                                                                         *)
(* JavaScript is single threaded: a handler runs without interruption      *)
(* from one await to the next.  Every action below is one such             *)
(* synchronous segment.                                                    *)
(***************************************************************************)
EXTENDS Integers, Sequences, FiniteSets, TLC

(***************************************************************************)
(* Bounds of the model.                                                    *)
(***************************************************************************)
MaxCalls == 2       \* relay requests (sync or streaming) served by the process
MaxStarts == 2      \* start requests served by the process
MaxEvents == 4      \* upstream events the streaming calls consume in all
MaxTime == 1        \* values Date.now() takes

Calls == 1..MaxCalls
Times == 1..MaxTime

(***************************************************************************)
(* JavaScript values.  Strings are sequences of UTF-16 code units: "a" is  *)
(* a letter, " " white space, "H" a high surrogate, "L" a low surrogate.   *)
(* Identifiers exchanged with the upstream are kept as opaque strings, and *)
(* UNDEFINED and NULL are the two JavaScript values of those names.        *)
(***************************************************************************)
UNDEFINED == "undefined"
NULL == "null"
EMPTY == ""

\* values of Math.random().toString(36).substr(2, 9)
Suffixes == {"k3", "q7"}
\* `session_${Date.now()}_${suffix}`
SessionId(t, r) == <<t, r>>
SessionIds == {SessionId(t, r) : t \in Times, r \in Suffixes}
\* a request body without sessionId (or with an empty one)
NoSessionId == <<0, EMPTY>>

\* ids the upstream assigns to a response; a payload may also come without id
RespIds == {"r1", "r2"}
UpstreamIds == RespIds \cup {UNDEFINED}

\* own keys of langName (two of the five are enough: all five are treated alike)
langName == {"en", "fr"}
\* keys every object literal inherits from Object.prototype
ObjectPrototypeKeys == {"toString"}
\* targetLang values of a request: absent, supported, unsupported
TargetLangs == {EMPTY, "en", "de", "toString"}
\* those that are no property name of Object.prototype
PlainLangs == {EMPTY, "en", "de"}

\* message values of a request: absent or empty, and a text
Messages == {<< >>, <<"a">>}

\* output_text values of a sync upstream response (when present)
OutputTexts == {<<"a">>, <<" ", "a">>}
\* delta values of a response.output_text.delta event
Deltas == {<< >>, <<"a">>, <<"H">>, <<"L">>}
\* those without surrogates
PlainDeltas == {<< >>, <<"a">>}

(***************************************************************************)
(* Pure functions.                                                         *)
(***************************************************************************)
\* JavaScript truthiness of a string-or-undefined value
Truthy(v) == v \notin {UNDEFINED, EMPTY, NULL}

\* `key in langName`: own or inherited property
InLangName(key) == key \in langName \cup ObjectPrototypeKeys

\* !sessionId || !message || !targetLang || !(targetLang in langName)
InvalidRequest(sessionId, message, targetLang) ==
    \/ sessionId = NoSessionId
    \/ message = << >>
    \/ targetLang = EMPTY
    \/ ~InLangName(targetLang)

Last(s) == s[Len(s)]

\* conversation.responseIds[conversation.responseIds.length - 1] || null
PreviousResponseId(responseIds) ==
    IF responseIds = << >> THEN NULL
    ELSE IF Truthy(Last(responseIds)) THEN Last(responseIds) ELSE NULL

RECURSIVE TrimStart(_)
TrimStart(s) ==
    IF s # << >> /\ Head(s) = " " THEN TrimStart(Tail(s)) ELSE s

RECURSIVE TrimEnd(_)
TrimEnd(s) ==
    IF s # << >> /\ Last(s) = " " THEN TrimEnd(SubSeq(s, 1, Len(s) - 1)) ELSE s

\* String.prototype.trim
Trim(s) == TrimEnd(TrimStart(s))

\* (response as any).output_text?.trim?.() ?? ''
AssistantMessage(hasText, text) == IF hasText THEN Trim(text) ELSE << >>

\* TextEncoder.encode: UTF-8 of a UTF-16 string, one element per encoded
\* scalar value.  A surrogate pair is one scalar ("HL"); a surrogate that is
\* not part of a pair is replaced by U+FFFD.
RECURSIVE Encode(_)
Encode(s) ==
    IF s = << >> THEN << >>
    ELSE IF Head(s) = "H" /\ Len(s) >= 2 /\ s[2] = "L"
         THEN <<"HL">> \o Encode(SubSeq(s, 3, Len(s)))
    ELSE IF Head(s) \in {"H", "L"} THEN <<"FFFD">> \o Encode(Tail(s))
    ELSE <<Head(s)>> \o Encode(Tail(s))

UserTurn(content) == [role |-> "user", content |-> content]
AssistantTurn(content) == [role |-> "assistant", content |-> content]

\* { responseIds: [], messages: [] }
EmptyConversation == [responseIds |-> << >>, messages |-> << >>]

(***************************************************************************)
(* State.                                                                  *)
(***************************************************************************)
VARIABLES
    heap,           \* the Conversation objects allocated so far
    conversations,  \* the Map: session id -> index in heap (0: no entry)
    apiKey,         \* env.OPENAI_API_KEY is set
    now,            \* the last value Date.now() returned
    started,        \* session ids returned by start calls, in order
    pc,             \* per call: position of the handler (see PcValues)
    kind,           \* per call: "none", "sync", "stream"
    req,            \* per call: the request body
    conversation,   \* per call: index in heap of the object it loaded (0: none)
    mark,           \* per call: messages.length of that object when it was loaded
    previousResponseId, \* per call: previous_response_id sent upstream
    invoked,        \* per call: openai.responses.create was called
    status,         \* per call: HTTP status of the response (0: none yet)
    reply,          \* per call: responseId of the sync JSON reply
    fullResponse,   \* per streaming call: accumulated text
    responseId,     \* per streaming call: captured response id
    channel,        \* per streaming call: state of the ReadableStream
    chunks,         \* per streaming call: chunks enqueued, in order
    deltaText,      \* per streaming call: the deltas read from the upstream, joined
    deltas,         \* per streaming call: the deltas read from the upstream, in order
    nEvents,        \* events the streaming calls have read from the upstream
    committed       \* per call: it pushed a response id and an assistant turn

vars == <<heap, conversations, apiKey, now, started, pc, kind, req,
          conversation, mark, previousResponseId, invoked, status, reply,
          fullResponse, responseId, channel, chunks, deltaText, deltas,
          nEvents, committed>>

storeVars == <<heap, conversations>>
envVars == <<apiKey, now, started>>
requestVars == <<kind, req, conversation, mark, previousResponseId, invoked,
                 status>>
streamVars == <<fullResponse, responseId, channel, chunks, deltaText, deltas,
                nEvents>>

\* "idle": no request yet; "awaitSync": suspended at line 89; "receiving":
\* suspended at line 152 or 163; "done": the sync handler returned, or a
\* request was rejected; "completed": the streaming loop left through the
\* completion event; "ended": the upstream stream ran out; "failed": the
\* streaming loop left through an error event or an exception.
PcValues == {"idle", "awaitSync", "receiving", "done", "completed", "ended",
             "failed"}

NoRequest == [sessionId |-> NoSessionId, message |-> << >>, targetLang |-> EMPTY]
Requests == [sessionId : SessionIds \cup {NoSessionId}, message : Messages,
             targetLang : TargetLangs]
PlainRequests == {body \in Requests : body.targetLang \in PlainLangs}

Init ==
    /\ heap = << >>
    /\ conversations = [s \in SessionIds |-> 0]
    /\ apiKey \in BOOLEAN
    /\ now = 1
    /\ started = << >>
    /\ pc = [p \in Calls |-> "idle"]
    /\ kind = [p \in Calls |-> "none"]
    /\ req = [p \in Calls |-> NoRequest]
    /\ conversation = [p \in Calls |-> 0]
    /\ mark = [p \in Calls |-> 0]
    /\ previousResponseId = [p \in Calls |-> NULL]
    /\ invoked = [p \in Calls |-> FALSE]
    /\ status = [p \in Calls |-> 0]
    /\ reply = [p \in Calls |-> NULL]
    /\ fullResponse = [p \in Calls |-> << >>]
    /\ responseId = [p \in Calls |-> EMPTY]
    /\ channel = [p \in Calls |-> "none"]
    /\ chunks = [p \in Calls |-> << >>]
    /\ deltaText = [p \in Calls |-> << >>]
    /\ deltas = [p \in Calls |-> << >>]
    /\ nEvents = 0
    /\ committed = [p \in Calls |-> FALSE]

(***************************************************************************)
(* POST /api/conversation/start                                            *)
(***************************************************************************)
\* conversations.set(sessionId, { responseIds: [], messages: [] })
SetConversation(map, sessionId, index) == [map EXCEPT ![sessionId] = index]

handleStartConversation(t, r) ==
    /\ Len(started) < MaxStarts
    /\ t >= now
    /\ now' = t
    /\ heap' = Append(heap, EmptyConversation)
    /\ conversations' = SetConversation(conversations, SessionId(t, r), Len(heap) + 1)
    /\ started' = Append(started, SessionId(t, r))
    /\ UNCHANGED <<apiKey, pc, requestVars, reply, streamVars, committed>>

(***************************************************************************)
(* The part the two relay handlers share: lines 54-86 and 109-141.         *)
(***************************************************************************)
\* an EarlyReturn that answers an unknown session like a missing credential
EarlyReturnWrongStatus(body) ==
    IF InvalidRequest(body.sessionId, body.message, body.targetLang) THEN 400
    ELSE IF ~apiKey \/ conversations[body.sessionId] = 0 THEN 500
    ELSE 0

\* the status of the early return taken for a request body, 0 when none is
EarlyReturn(body) ==
    IF InvalidRequest(body.sessionId, body.message, body.targetLang) THEN 400
    ELSE IF ~apiKey THEN 500
    ELSE IF conversations[body.sessionId] = 0 THEN 404
    ELSE 0

\* a PushMessage that forgets line 84 or 139
PushMessageSkipped(h, c, turn) == h

\* a PushMessage on a history array that all the sessions share
PushMessageEverywhere(h, c, turn) ==
    [i \in DOMAIN h |-> [h[i] EXCEPT !.messages = Append(@, turn)]]

\* conversation.messages.push(turn)
PushMessage(h, c, turn) ==
    [h EXCEPT ![c].messages = Append(@, turn)]

\* a PushReply that forgets line 100 or 186
PushReplyWithoutToken(h, c, id, content) ==
    [h EXCEPT ![c].messages = Append(@, AssistantTurn(content))]

\* a PushReply that puts the new token in front (unshift instead of push)
PushReplyUnshift(h, c, id, content) ==
    [h EXCEPT ![c].responseIds = <<id>> \o @,
              ![c].messages = Append(@, AssistantTurn(content))]

\* conversation.responseIds.push(id); conversation.messages.push(assistant)
PushReply(h, c, id, content) ==
    [h EXCEPT ![c].responseIds = Append(@, id),
              ![c].messages = Append(@, AssistantTurn(content))]

\* a call slot is taken by the next request the worker receives
NextCall(p) == pc[p] = "idle" /\ \A q \in Calls : q < p => pc[q] # "idle"

Rejected(p, k, body) ==
    /\ pc' = [pc EXCEPT ![p] = "done"]
    /\ kind' = [kind EXCEPT ![p] = k]
    /\ req' = [req EXCEPT ![p] = body]
    /\ status' = [status EXCEPT ![p] = EarlyReturn(body)]
    /\ UNCHANGED <<storeVars, envVars, conversation, mark, previousResponseId,
                   invoked, reply, streamVars, committed>>

Accepted(p, k, body) ==
    LET c == conversations[body.sessionId] IN
    /\ kind' = [kind EXCEPT ![p] = k]
    /\ req' = [req EXCEPT ![p] = body]
    /\ conversation' = [conversation EXCEPT ![p] = c]
    /\ mark' = [mark EXCEPT ![p] = Len(heap[c].messages)]
    /\ heap' = PushMessage(heap, c, UserTurn(body.message))
    /\ previousResponseId' =
          [previousResponseId EXCEPT ![p] = PreviousResponseId(heap[c].responseIds)]
    /\ invoked' = [invoked EXCEPT ![p] = TRUE]
    /\ UNCHANGED <<conversations, envVars, reply, committed>>

(***************************************************************************)
(* POST /api/conversation/message                                          *)
(***************************************************************************)
handleMessage(p, body) ==
    /\ NextCall(p)
    /\ IF EarlyReturn(body) # 0
       THEN Rejected(p, "sync", body)
       ELSE /\ Accepted(p, "sync", body)
            /\ pc' = [pc EXCEPT ![p] = "awaitSync"]
            /\ UNCHANGED <<status, streamVars>>

\* lines 98-105: the upstream call returned a payload
MessageResolved(p, id, hasText, text) ==
    /\ pc[p] = "awaitSync"
    /\ heap' = PushReply(heap, conversation[p], id, AssistantMessage(hasText, text))
    /\ committed' = [committed EXCEPT ![p] = TRUE]
    /\ reply' = [reply EXCEPT ![p] = id]
    /\ status' = [status EXCEPT ![p] = 200]
    /\ pc' = [pc EXCEPT ![p] = "done"]
    /\ UNCHANGED <<conversations, envVars, kind, req, conversation, mark,
                   previousResponseId, invoked, streamVars>>

\* a handler that swallows the exception and records an empty reply
MessageRejectedStillCommits(p) ==
    /\ pc[p] = "awaitSync"
    /\ heap' = PushReply(heap, conversation[p], UNDEFINED, << >>)
    /\ status' = [status EXCEPT ![p] = 500]
    /\ pc' = [pc EXCEPT ![p] = "done"]
    /\ UNCHANGED <<conversations, envVars, kind, req, conversation, mark,
                   previousResponseId, invoked, reply, streamVars, committed>>

\* the upstream call threw: the exception leaves handleMessage and is caught
\* in fetch, lines 258-263
MessageRejected(p) ==
    /\ pc[p] = "awaitSync"
    /\ status' = [status EXCEPT ![p] = 500]
    /\ pc' = [pc EXCEPT ![p] = "done"]
    /\ UNCHANGED <<storeVars, envVars, kind, req, conversation, mark,
                   previousResponseId, invoked, reply, streamVars, committed>>

(***************************************************************************)
(* POST /api/conversation/message/stream                                   *)
(*                                                                         *)
(* new ReadableStream({ start }) runs start synchronously up to its first  *)
(* await, so the upstream call of line 152 is issued in the segment that   *)
(* pushed the user turn.  The handler then returns the Response (status    *)
(* 200) while start stays suspended; create's resolution changes no state, *)
(* so "receiving" covers the awaits of lines 152 and 163.                  *)
(***************************************************************************)
handleStreamMessage(p, body) ==
    /\ NextCall(p)
    /\ IF EarlyReturn(body) # 0
       THEN Rejected(p, "stream", body)
       ELSE /\ Accepted(p, "stream", body)
            /\ pc' = [pc EXCEPT ![p] = "receiving"]
            /\ status' = [status EXCEPT ![p] = 200]
            /\ channel' = [channel EXCEPT ![p] = "readable"]
            /\ UNCHANGED <<fullResponse, responseId, chunks, deltaText,
                           deltas, nEvents>>

\* a controller that accepts enqueue and close in every state of the stream
CanCloseOrEnqueueAlways(p) == TRUE

\* controller.enqueue and controller.close throw a TypeError unless the
\* stream is readable
CanCloseOrEnqueue(p) == channel[p] = "readable"

\* a controller.error that is never called
ControllerErrorIgnored(state) == state

\* controller.error(e): errors a readable stream, and does nothing otherwise
ControllerError(state) == IF state = "readable" THEN "errored" ELSE state

\* lines 189-192: the catch block
Catch(p) ==
    /\ channel' = [channel EXCEPT ![p] = ControllerError(channel[p])]
    /\ pc' = [pc EXCEPT ![p] = "failed"]

\* a commit that forgets the test of line 185
CommitStreamAlways(p) ==
    /\ heap' = PushReply(heap, conversation[p], responseId[p], fullResponse[p])
    /\ committed' = [committed EXCEPT ![p] = TRUE]

\* lines 185-188
CommitStream(p) ==
    IF Truthy(responseId[p])
    THEN /\ heap' = PushReply(heap, conversation[p], responseId[p], fullResponse[p])
         /\ committed' = [committed EXCEPT ![p] = TRUE]
    ELSE UNCHANGED <<heap, committed>>

\* the loop reads one more event
ReadEvent(p) ==
    /\ pc[p] = "receiving"
    /\ nEvents < MaxEvents
    /\ nEvents' = nEvents + 1

\* lines 164-166: a response.created event
StreamCreated(p, id) ==
    /\ ReadEvent(p)
    /\ responseId' = [responseId EXCEPT ![p] = IF Truthy(id) THEN id ELSE EMPTY]
    /\ UNCHANGED <<storeVars, envVars, pc, requestVars, reply, fullResponse,
                   channel, chunks, deltaText, deltas, committed>>

\* lines 168-171: a response.output_text.delta event
StreamDelta(p, delta) ==
    /\ ReadEvent(p)
    /\ deltaText' = [deltaText EXCEPT ![p] = @ \o delta]
    /\ deltas' = [deltas EXCEPT ![p] = Append(@, delta)]
    /\ IF delta = << >>
       THEN UNCHANGED <<fullResponse, chunks, channel, pc>>
       ELSE /\ fullResponse' = [fullResponse EXCEPT ![p] = @ \o delta]
            /\ IF CanCloseOrEnqueue(p)
               THEN /\ chunks' = [chunks EXCEPT ![p] = Append(@, Encode(delta))]
                    /\ UNCHANGED <<channel, pc>>
               ELSE /\ Catch(p)
                    /\ UNCHANGED chunks
    /\ UNCHANGED <<storeVars, envVars, requestVars, reply, responseId, committed>>

\* lines 173-176, then 185-188: a response.output_text.done event
StreamDone(p) ==
    /\ ReadEvent(p)
    /\ IF CanCloseOrEnqueue(p)
       THEN /\ channel' = [channel EXCEPT ![p] = "closed"]
            /\ pc' = [pc EXCEPT ![p] = "completed"]
            /\ CommitStream(p)
       ELSE /\ Catch(p)
            /\ UNCHANGED <<heap, committed>>
    /\ UNCHANGED <<conversations, envVars, requestVars, reply, fullResponse,
                   responseId, chunks, deltaText, deltas>>

\* lines 178-182: an event whose response carries an error
StreamError(p) ==
    /\ ReadEvent(p)
    /\ channel' = [channel EXCEPT ![p] = ControllerError(channel[p])]
    /\ pc' = [pc EXCEPT ![p] = "failed"]
    /\ UNCHANGED <<storeVars, envVars, requestVars, reply, fullResponse,
                   responseId, chunks, deltaText, deltas, committed>>

\* the upstream stream is exhausted: the loop of line 163 ends, then 185-188
StreamEnd(p) ==
    /\ pc[p] = "receiving"
    /\ pc' = [pc EXCEPT ![p] = "ended"]
    /\ CommitStream(p)
    /\ UNCHANGED <<conversations, envVars, requestVars, reply, streamVars>>

\* create (line 152) or the iteration (line 163) throws
StreamThrow(p) ==
    /\ pc[p] = "receiving"
    /\ Catch(p)
    /\ UNCHANGED <<storeVars, envVars, requestVars, reply, fullResponse,
                   responseId, chunks, deltaText, deltas, nEvents, committed>>

\* the caller cancels the response body; the stream has no cancel callback
Cancel(p) ==
    /\ channel[p] = "readable"
    /\ channel' = [channel EXCEPT ![p] = "cancelled"]
    /\ UNCHANGED <<storeVars, envVars, pc, requestVars, reply, fullResponse,
                   responseId, chunks, deltaText, deltas, nEvents, committed>>

\* what the upstream and the caller do, but for text deltas
Environment ==
    \/ \E p \in Calls, id \in UpstreamIds, hasText \in BOOLEAN, text \in OutputTexts :
          MessageResolved(p, id, hasText, text)
    \/ \E p \in Calls : MessageRejected(p)
    \/ \E p \in Calls, id \in UpstreamIds : StreamCreated(p, id)
    \/ \E p \in Calls : StreamDone(p)
    \/ \E p \in Calls : StreamError(p)
    \/ \E p \in Calls : StreamEnd(p)
    \/ \E p \in Calls : StreamThrow(p)
    \/ \E p \in Calls : Cancel(p)

(***************************************************************************)
(* Spec: concurrent traffic.  Requests arrive at any time, so relay calls  *)
(* overlap each other and start calls.                                     *)
(***************************************************************************)
Next ==
    \/ \E t \in Times, r \in Suffixes : handleStartConversation(t, r)
    \/ \E p \in Calls, body \in PlainRequests : handleMessage(p, body)
    \/ \E p \in Calls, body \in PlainRequests : handleStreamMessage(p, body)
    \/ \E p \in Calls, delta \in PlainDeltas : StreamDelta(p, delta)
    \/ Environment

Spec == Init /\ [][Next]_vars

(***************************************************************************)
(* SpecSingle: the process serves one relay request, drawn with every      *)
(* targetLang, and the upstream sends every delta of the sets above.       *)
(***************************************************************************)
NextSingle ==
    \/ \E t \in Times, r \in Suffixes : handleStartConversation(t, r)
    \/ \E body \in Requests : handleMessage(1, body)
    \/ \E body \in Requests : handleStreamMessage(1, body)
    \/ \E delta \in Deltas : StreamDelta(1, delta)
    \/ Environment

SpecSingle == Init /\ [][NextSingle]_vars

TypeOK ==
    /\ pc \in [Calls -> PcValues]
    /\ \A s \in SessionIds : conversations[s] \in 0..Len(heap)
    /\ \A p \in Calls : conversation[p] \in 0..Len(heap)

(***************************************************************************)
(* Vocabulary of the properties.                                           *)
(***************************************************************************)
\* the session ids that conversations.get resolves
Stored == {s \in SessionIds : conversations[s] # 0}
Session(s) == heap[conversations[s]]

\* the bytes a reader of the channel gets: the chunks, in order
RECURSIVE Flatten(_)
Flatten(ss) == IF ss = << >> THEN << >> ELSE Head(ss) \o Flatten(Tail(ss))

Count(messages, role) ==
    Cardinality({i \in DOMAIN messages : messages[i].role = role})

\* the calls that loaded object c, and those of them that committed a reply
Loaded(c) == {p \in Calls : conversation[p] = c}
Committed(c) == {p \in Loaded(c) : committed[p]}

\* every turn of an object was pushed by a call that loaded it: one user turn
\* per call, one assistant turn per call that committed
TurnsPerCall(c) ==
    /\ Count(heap[c].messages, "user") = Cardinality(Loaded(c))
    /\ Count(heap[c].messages, "assistant") = Cardinality(Committed(c))

\* call p has pushed its user turn right after the history it found
UserTurnInPlace(p) ==
    LET messages == heap[conversation[p]].messages IN
    /\ Len(messages) > mark[p]
    /\ messages[mark[p] + 1] = UserTurn(req[p].message)

\* this step is the first segment of call p
Begins(p) == pc[p] = "idle" /\ pc'[p] # "idle"

\* this step is the return of sync call p with a 200 and a response id
SyncSucceeds(p) ==
    /\ pc[p] = "awaitSync"
    /\ pc'[p] = "done"
    /\ status'[p] = 200
    /\ reply'[p] \in RespIds

(***************************************************************************)
(* C1.  In every reachable state, every session in the store has as many   *)
(* continuation tokens (responseIds) as assistant turns in its history.    *)
(***************************************************************************)
C1_TokensMatchAssistantTurns ==
    \A s \in Stored :
        Len(Session(s).responseIds) = Count(Session(s).messages, "assistant")

\* a stored session holds a reply committed by a sync call and one committed
\* by a streaming call
C1_Witness ==
    \E s \in Stored : \E p, q \in Committed(conversations[s]) :
        /\ kind[p] = "sync"
        /\ kind[q] = "stream"
        /\ Len(Session(s).responseIds) = 2

(***************************************************************************)
(* C2, as claimed.  When a sync relay call succeeds, the history of its    *)
(* session is the history the call found, followed by exactly one user     *)
(* turn and one assistant turn, and the last continuation token is the     *)
(* responseId returned.                                                    *)
(***************************************************************************)
C2_GrownByExactlyTwoTurns ==
    [][\A p \in Calls : SyncSucceeds(p) =>
          LET c == conversation[p]
              turn == Last(heap'[c].messages)
          IN  /\ turn.role = "assistant"
              /\ heap'[c].messages =
                    SubSeq(heap[c].messages, 1, mark[p])
                      \o <<UserTurn(req[p].message), turn>>
              /\ Last(heap'[c].responseIds) = reply'[p]]_vars

(***************************************************************************)
(* C2, amended.  When a sync relay call succeeds, that call has pushed     *)
(* exactly one user turn (right after the history it found) and pushes, at *)
(* its return, exactly one assistant turn and one continuation token at    *)
(* the end of the conversation it loaded; the token is the responseId      *)
(* returned.  Turns of overlapping calls may lie between the two.          *)
(***************************************************************************)
C2_OneUserTurnThenOneAssistantTurn ==
    /\ [](\A c \in DOMAIN heap : TurnsPerCall(c))
    /\ [][\A p \in Calls : SyncSucceeds(p) =>
            LET c == conversation[p]
                turn == Last(heap'[c].messages)
            IN  /\ UserTurnInPlace(p)
                /\ turn.role = "assistant"
                /\ heap'[c].messages = Append(heap[c].messages, turn)
                /\ heap'[c].responseIds = Append(heap[c].responseIds, reply'[p])]_vars

\* a sync call has succeeded with the turn of another call between its two
C2_Witness ==
    \E p \in Calls :
        /\ kind[p] = "sync" /\ status[p] = 200 /\ reply[p] \in RespIds
        /\ Len(heap[conversation[p]].messages) = mark[p] + 3
        /\ Last(heap[conversation[p]].messages).role = "assistant"
        /\ Last(heap[conversation[p]].responseIds) = reply[p]

(***************************************************************************)
(* C3.  Every upstream call carries as previous_response_id the last       *)
(* continuation token of its session at the time it is issued, and null    *)
(* exactly when the session has no continuation token.                     *)
(***************************************************************************)
C3_PreviousIsLastToken ==
    [][\A p \in Calls : (~invoked[p] /\ invoked'[p]) =>
          LET responseIds == heap[conversation'[p]].responseIds IN
          previousResponseId'[p] =
              IF responseIds = << >> THEN NULL ELSE Last(responseIds)]_vars

(***************************************************************************)
(* C4.  When a streaming call commits after the completion event, the      *)
(* text it commits is the concatenation of the deltas it received, and the *)
(* bytes it delivered to the caller are the encoding of that text.         *)
(***************************************************************************)
C4_CommittedTextIsDelivered ==
    [][\A p \in Calls : (~committed[p] /\ committed'[p] /\ pc'[p] = "completed") =>
          LET text == Last(heap'[conversation[p]].messages).content IN
          /\ text = deltaText'[p]
          /\ Flatten(chunks'[p]) = Encode(text)]_vars

(***************************************************************************)
(* C5.  A streaming call that has committed an assistant turn has received *)
(* the completion event and closed the caller's channel cleanly.           *)
(***************************************************************************)
C5_CommitOnlyAfterCompletion ==
    \A p \in Calls :
        (kind[p] = "stream" /\ committed[p]) =>
            (pc[p] = "completed" /\ channel[p] = "closed")

(***************************************************************************)
(* C6, as claimed.  A streaming call that ended in failure has errored the *)
(* caller's channel, and has given the session its user turn but no        *)
(* assistant turn and no continuation token.                               *)
(***************************************************************************)
FailedWithoutCommit(p) ==
    /\ ~committed[p]
    /\ UserTurnInPlace(p)
    /\ TurnsPerCall(conversation[p])

C6_FailedStreamErrorsChannel ==
    \A p \in Calls :
        pc[p] = "failed" => (channel[p] = "errored" /\ FailedWithoutCommit(p))

(***************************************************************************)
(* C6, amended.  A streaming call that ended in failure has errored the    *)
(* caller's channel unless the caller had cancelled it before, and has     *)
(* given the session its user turn but no assistant turn and no            *)
(* continuation token.                                                     *)
(***************************************************************************)
C6_FailedStreamErrorsOpenChannel ==
    \A p \in Calls :
        pc[p] = "failed" =>
            (channel[p] \in {"errored", "cancelled"} /\ FailedWithoutCommit(p))

\* a streaming call failed after it had captured an id and forwarded a delta
C6_Witness ==
    \E p \in Calls :
        /\ pc[p] = "failed" /\ channel[p] = "errored"
        /\ responseId[p] \in RespIds /\ chunks[p] # << >>
        /\ heap[conversation[p]].messages = <<UserTurn(req[p].message)>>

(***************************************************************************)
(* C7.  A relay call without session id, without message, or with a        *)
(* missing or unsupported target language is answered 400, leaves the      *)
(* session store unchanged and makes no upstream call.  Stated for the     *)
(* requests that would be served otherwise: the credential is configured   *)
(* and the session id, when there is one, is in the store.                 *)
(***************************************************************************)
BadRequest(body) ==
    \/ body.sessionId = NoSessionId
    \/ body.message = << >>
    \/ body.targetLang \notin langName

C7_BadRequestRejected ==
    [][\A p \in Calls :
          ( /\ Begins(p)
            /\ BadRequest(req'[p])
            /\ apiKey
            /\ req'[p].sessionId \in Stored \cup {NoSessionId} ) =>
              /\ status'[p] = 400
              /\ UNCHANGED storeVars
              /\ ~invoked'[p]]_vars

(***************************************************************************)
(* C8, as claimed.  A relay call whose session id is not in the store is   *)
(* answered 404, mutates no session and makes no upstream call.            *)
(***************************************************************************)
Unknown(body) == body.sessionId \in SessionIds \ Stored

C8_UnknownSessionIs404 ==
    [][\A p \in Calls : (Begins(p) /\ Unknown(req'[p])) =>
          /\ status'[p] = 404
          /\ UNCHANGED storeVars
          /\ ~invoked'[p]]_vars

(***************************************************************************)
(* C8, amended.  A relay call whose session id is not in the store mutates *)
(* no session and makes no upstream call; it is answered 404 when the      *)
(* request passes validation and the credential is configured (400 and 500 *)
(* come first otherwise).                                                  *)
(***************************************************************************)
C8_UnknownSessionNeverMutates ==
    [][\A p \in Calls : (Begins(p) /\ Unknown(req'[p])) =>
          /\ UNCHANGED storeVars
          /\ ~invoked'[p]
          /\ conversation'[p] = 0
          /\ status'[p] =
                IF InvalidRequest(req'[p].sessionId, req'[p].message,
                                  req'[p].targetLang) THEN 400
                ELSE IF ~apiKey THEN 500 ELSE 404]_vars

\* a valid request for a session id that is not in the store, while another
\* session is, was answered 404, by each handler
C8_Witness ==
    \E p, q \in Calls :
        /\ kind[p] = "sync" /\ kind[q] = "stream"
        /\ status[p] = 404 /\ status[q] = 404
        /\ Stored # {}
        /\ heap[1].messages = << >>

(***************************************************************************)
(* C9.  A sync relay whose upstream call threw is answered 500, and has    *)
(* given the session its user turn and nothing else.                       *)
(***************************************************************************)
UpstreamThrew(p) ==
    kind[p] = "sync" /\ invoked[p] /\ pc[p] = "done" /\ status[p] # 200

C9_UpstreamFailureIs500 ==
    \A p \in Calls :
        UpstreamThrew(p) =>
            /\ status[p] = 500
            /\ reply[p] = NULL
            /\ FailedWithoutCommit(p)

\* the upstream call of a sync relay threw while a second call on the same
\* session committed its reply
C9_Witness ==
    \E p, q \in Calls :
        /\ UpstreamThrew(p)
        /\ conversation[q] = conversation[p] /\ committed[q]
        /\ Count(heap[conversation[p]].messages, "user") = 2
        /\ Len(heap[conversation[p]].responseIds) = 1

(***************************************************************************)
(* C10.  The session ids returned by the start calls are pairwise          *)
(* distinct.                                                               *)
(***************************************************************************)
C10_DistinctSessionIds ==
    \A i, j \in DOMAIN started : i # j => started[i] # started[j]

(***************************************************************************)
(* C11.  What the channel of a streaming call carries.                     *)
(***************************************************************************)
\* the deltas that line 168 lets through: the non-empty ones, each encoded
\* on its own
NonEmpty(delta) == delta # << >>

Forwardable(p) ==
    LET ds == SelectSeq(deltas[p], NonEmpty) IN
    [i \in 1..Len(ds) |-> Encode(ds[i])]

\* the channel no longer takes chunks
Finished(p) == channel[p] \in {"closed", "errored", "cancelled"}

\* C11 as stated: the channel carries one chunk per delta received, in the
\* order of arrival, it is closed once the loop has left through a completion
\* event, and no chunk is enqueued once it is closed or errored.
C11_OneChunkPerDelta ==
    /\ [](\A p \in Calls :
            /\ chunks[p] = [i \in 1..Len(deltas[p]) |-> Encode(deltas[p][i])]
            /\ pc[p] = "completed" => channel[p] = "closed")
    /\ [][\A p \in Calls :
            channel[p] \in {"closed", "errored"} => chunks'[p] = chunks[p]]_vars

\* C11 as the code has it: the channel carries one chunk per NON-EMPTY delta
\* received while the caller still reads, each the encoding of that delta, in
\* the order of arrival; the one delta that meets a cancelled channel is not
\* delivered and fails the call; the channel is closed once the loop has left
\* through a completion event; and no chunk is enqueued once the channel is
\* closed, errored or cancelled.
C11_OneChunkPerNonEmptyDelta ==
    /\ [](\A p \in Calls :
            LET all == Forwardable(p) IN
            /\ Len(chunks[p]) <= Len(all)
            /\ chunks[p] = SubSeq(all, 1, Len(chunks[p]))
            /\ Len(chunks[p]) < Len(all) =>
                  /\ Len(chunks[p]) = Len(all) - 1
                  /\ channel[p] = "cancelled"
                  /\ pc[p] = "failed"
            /\ pc[p] = "completed" => channel[p] = "closed")
    /\ [][\A p \in Calls : Finished(p) => chunks'[p] = chunks[p]]_vars

\* a completed stream that received three deltas, one of them empty, and
\* forwarded two chunks
C11_Witness ==
    \E p \in Calls :
        /\ pc[p] = "completed"
        /\ channel[p] = "closed"
        /\ Len(deltas[p]) = 3
        /\ Len(chunks[p]) = 2

(***************************************************************************)
(* C12.  Every streaming call ends with its channel ended.                 *)
(***************************************************************************)
\* start() of call p has returned: the loop was left through the completion
\* event, through the end of the upstream stream, or through a failure
Returned(p) == pc[p] \in {"completed", "ended", "failed"}

\* C12: once the upstream event sequence of a streaming call is over and the
\* relay has stopped, the caller's channel is no longer open: it was closed
\* or errored (or the caller had cancelled it).
C12_ReturnedStreamEndsChannel ==
    \A p \in Calls : Returned(p) => channel[p] # "readable"

(***************************************************************************)
(* C13.  A sync payload without an id is an upstream failure.              *)
(***************************************************************************)
\* the upstream answered sync call p with a payload that carries no id
PayloadWithoutId(p) == kind[p] = "sync" /\ reply[p] = UNDEFINED

\* C13: a sync relay call whose upstream payload has no identifier answers
\* 500 and has appended neither an assistant turn nor a continuation token.
C13_UnexpectedPayloadIs500 ==
    \A p \in Calls : PayloadWithoutId(p) => status[p] = 500 /\ ~committed[p]

(***************************************************************************)
(* C14.  Overlapping relay calls on one session.                           *)
(***************************************************************************)
\* call q loaded the object of call p right after p's first segment: nothing
\* but p's user turn was pushed in between, and p had not committed
Overlap(p, q) ==
    /\ p # q
    /\ conversation[p] # 0
    /\ conversation[q] = conversation[p]
    /\ mark[q] = mark[p] + 1

\* the response id that call p got from the upstream
TokenOf(p) == IF kind[p] = "sync" THEN reply[p] ELSE responseId[p]

Roles(messages) == [i \in DOMAIN messages |-> messages[i].role]

\* C14: nothing keeps a relay call from starting on a session while another
\* one is in flight.  Whenever call q starts right behind call p on the same
\* session, both have read the same last token and their user turns are
\* adjacent in the history; and every commit appends its token and its
\* assistant turn at the end, so the replies are in the order of completion.
C14_OverlappingCallsInterleave ==
    /\ [](\A p, q \in Calls :
            Overlap(p, q) =>
                LET messages == heap[conversation[p]].messages IN
                /\ previousResponseId[q] = previousResponseId[p]
                /\ messages[mark[p] + 1].role = "user"
                /\ messages[mark[p] + 2].role = "user")
    /\ [][\A c \in DOMAIN heap :
            heap'[c].responseIds # heap[c].responseIds =>
                /\ heap'[c].responseIds =
                      Append(heap[c].responseIds, Last(heap'[c].responseIds))
                /\ heap'[c].messages =
                      Append(heap[c].messages, Last(heap'[c].messages))
                /\ Last(heap'[c].messages).role = "assistant"]_vars

\* two overlapping calls on a fresh session, the second request answered
\* first: user, user, assistant, assistant, tokens in completion order
C14_Witness ==
    \E p, q \in Calls :
        /\ Overlap(p, q)
        /\ mark[p] = 0
        /\ committed[p] /\ committed[q]
        /\ previousResponseId[p] = NULL /\ previousResponseId[q] = NULL
        /\ TokenOf(p) # TokenOf(q)
        /\ heap[conversation[p]].responseIds = <<TokenOf(q), TokenOf(p)>>
        /\ Roles(heap[conversation[p]].messages) =
              <<"user", "user", "assistant", "assistant">>

(***************************************************************************)
(* C15.  A cancelled channel stops the relay.                              *)
(***************************************************************************)
\* C15: once the caller has cancelled the channel of a streaming call, the
\* call takes no further event from the upstream stream (no response id and
\* no delta is read any more) and commits no assistant turn and no token.
C15_CancelStopsTheRelay ==
    [][\A p \in Calls :
          channel[p] = "cancelled" =>
              /\ responseId'[p] = responseId[p]
              /\ deltas'[p] = deltas[p]
              /\ committed'[p] = committed[p]
              /\ heap'[conversation[p]] = heap[conversation[p]]]_vars

(***************************************************************************)
(* C16.  A completion event without a captured response id.                *)
(***************************************************************************)
\* this step takes call p out of the loop with no response id captured
LeavesLoopWithoutId(p) ==
    /\ pc[p] = "receiving"
    /\ pc'[p] # "receiving"
    /\ responseId[p] = EMPTY

IsPrefix(a, b) == Len(a) <= Len(b) /\ a = SubSeq(b, 1, Len(a))

\* C17: every step keeps every stored session in the store, and the history
\* and the token list the session had before the step are prefixes of those
\* it has after it; a start call in particular leaves existing sessions alone.
C17_SessionsAppendOnly ==
    [][\A s \in Stored :
          /\ conversations'[s] # 0
          /\ IsPrefix(heap[conversations[s]].messages,
                      heap'[conversations'[s]].messages)
          /\ IsPrefix(heap[conversations[s]].responseIds,
                      heap'[conversations'[s]].responseIds)]_vars

(***************************************************************************)
(* C18.  A relay call touches its own session only.                        *)
(***************************************************************************)
\* this step is a step of call p that ends one of its segments
Acts(p) == pc'[p] # pc[p]

\* C18: a step of a relay call leaves the store's map and every object but
\* the call's own as they were; the object a call loads is the one its own
\* session id names, and the token it sends upstream is the last token of
\* that object (or none); and the steps of a call between two segments
\* (events read, cancellation) change no session at all.
C18_RelayTouchesOnlyItsSession ==
    /\ [][\A p \in Calls :
            Acts(p) =>
                /\ conversations' = conversations
                /\ DOMAIN heap' = DOMAIN heap
                /\ \A c \in DOMAIN heap :
                      c # conversation'[p] => heap'[c] = heap[c]]_vars
    /\ [][\A p \in Calls :
            Begins(p) /\ conversation'[p] # 0 =>
                LET c == conversation'[p] IN
                /\ c = conversations[req'[p].sessionId]
                /\ previousResponseId'[p] =
                      PreviousResponseId(heap[c].responseIds)
                /\ heap'[c].responseIds = heap[c].responseIds
                /\ heap'[c].messages =
                      Append(heap[c].messages, UserTurn(req'[p].message))]_vars
    /\ [][(started' = started /\ \A p \in Calls : ~Acts(p)) =>
              UNCHANGED storeVars]_vars

\* two calls on two sessions: one has committed its reply while the other is
\* in flight, and the session of the latter holds its own user turn only
C18_Witness ==
    \E p, q \in Calls :
        /\ conversation[p] # 0 /\ conversation[q] # 0
        /\ conversation[p] # conversation[q]
        /\ req[p].sessionId # req[q].sessionId
        /\ committed[p]
        /\ pc[q] \in {"awaitSync", "receiving"}
        /\ heap[conversation[p]].responseIds = <<TokenOf(p)>>
        /\ Roles(heap[conversation[p]].messages) = <<"user", "assistant">>
        /\ heap[conversation[q]].responseIds = << >>
        /\ heap[conversation[q]].messages = <<UserTurn(req[q].message)>>

(***************************************************************************)
(* C19.  User turns lead assistant turns.                                  *)
(***************************************************************************)
\* C19: in every history, of a stored session or of an object that in-flight
\* calls still hold, every prefix has at least as many user turns as
\* assistant turns; and a call that has committed has its user turn in place
\* before its assistant turn.
C19_UsersLeadAssistants ==
    /\ \A c \in DOMAIN heap :
          LET messages == heap[c].messages IN
          \A n \in 0..Len(messages) :
              Count(SubSeq(messages, 1, n), "user") >=
                  Count(SubSeq(messages, 1, n), "assistant")
    /\ \A p \in Calls :
          committed[p] =>
              LET messages == heap[conversation[p]].messages IN
              /\ UserTurnInPlace(p)
              /\ \E i \in (mark[p] + 2)..Len(messages) :
                    messages[i].role = "assistant"

\* two calls on one session, one failed and one committed: two user turns
\* lead the one assistant turn
C19_Witness ==
    \E p, q \in Calls :
        /\ Overlap(p, q)
        /\ ~committed[p] /\ (status[p] = 500 \/ pc[p] = "failed")
        /\ committed[q]
        /\ Roles(heap[conversation[p]].messages) =
              <<"user", "user", "assistant">>

====
